---- MODULE Spec2Model ----
(***************************************************************************)
(* The GitHub stats endpoint of src/src/pages/api/stats.ts: the GET        *)
(* handler, its single outbound GraphQL call, and the aggregation of the   *)
(* reply into a GitHubStats record.                                        *)
(*                                                                         *)
(* JavaScript values are modelled as follows.                              *)
(*  - A string that is used as a property key or parsed is a sequence of   *)
(*    one-character strings: "01" is <<"0","1">>.                          *)
(*  - A plain object used as a tally (Record<string, number>) is the       *)
(*    sequence of its properties in creation order; ObjectEntries applies  *)
(*    the own-property-key order of the language to it.                    *)
(*  - A date string "YYYY-MM-DD" is the triple <<YYYY, MM, DD>>; the edge  *)
(*    runtime runs in UTC, so new Date(s) is midnight UTC of that day and  *)
(*    getMonth() is MM - 1.                                                *)
(*  - A double is the record of its 53-bit significand m (a natural number  *)
(*    in base-2^15 digits, see below) and a scale s: the value m / 2^s.    *)
(***************************************************************************)
EXTENDS Integers, Sequences, FiniteSets, TLC

VARIABLES
    pc,              \* per request: "idle", "awaiting", "settled", "done"
    username,        \* per request: the value of searchParams.get("username")
    graphqlResponse, \* per request: how the awaited octokit.graphql call settled
    response,        \* per request: the NextResponse returned
    trace,           \* the events of all requests, in the order they happened
    input,           \* the user record an aggregation run is applied to
    stats            \* the outcome of that aggregation run

vars == <<pc, username, graphqlResponse, response, trace, input, stats>>

-----------------------------------------------------------------------------
(* Strings as property keys *)

DigitChars == <<"0", "1", "2", "3", "4", "5", "6", "7", "8", "9">>

IsDigit(c) == \E i \in 1..Len(DigitChars) : DigitChars[i] = c

DigitValue(c) == CHOOSE v \in 0..9 : DigitChars[v + 1] = c

\* Number.prototype.toString of a non-negative integer, and the property key
\* a number indexes an object by.
RECURSIVE NumberToString(_)
NumberToString(n) ==
    IF n < 10 THEN <<DigitChars[n + 1]>>
    ELSE NumberToString(n \div 10) \o <<DigitChars[(n % 10) + 1]>>

\* String.prototype.padStart(targetLength, fill) with a one-character fill.
RECURSIVE padStart(_, _, _)
padStart(s, targetLength, fill) ==
    IF Len(s) >= targetLength THEN s
    ELSE padStart(<<fill>> \o s, targetLength, fill)

\* parseInt(s): the value of the longest prefix of decimal digits; NaN (no
\* such prefix) is -1.
RECURSIVE ParseDigits(_, _)
ParseDigits(s, acc) ==
    IF s = <<>> \/ ~IsDigit(Head(s)) THEN acc
    ELSE ParseDigits(Tail(s), 10 * acc + DigitValue(Head(s)))

parseInt(s) ==
    IF s = <<>> \/ ~IsDigit(Head(s)) THEN -1 ELSE ParseDigits(s, 0)

\* An array index: the canonical decimal string of an integer (no leading
\* zero).  The keys of this program have at most two characters, far below
\* the 2^32 - 2 limit of an array index.
IsArrayIndex(k) ==
    /\ Len(k) > 0
    /\ \A i \in 1..Len(k) : IsDigit(k[i])
    /\ (Len(k) = 1 \/ k[1] # "0")

-----------------------------------------------------------------------------
(* Plain objects used as tallies, Object.entries and Array.prototype.sort *)

Has(obj, k) == \E i \in 1..Len(obj) : obj[i].key = k

\* (obj[k] || 0)
GetOrZero(obj, k) ==
    IF Has(obj, k) THEN obj[CHOOSE i \in 1..Len(obj) : obj[i].key = k].val
    ELSE 0

\* obj[k] = v: an existing property keeps its place, a new one is created last.
Put(obj, k, v) ==
    IF Has(obj, k)
    THEN [i \in 1..Len(obj) |->
            IF obj[i].key = k THEN [key |-> k, val |-> v] ELSE obj[i]]
    ELSE Append(obj, [key |-> k, val |-> v])

RECURSIVE InsertByIndex(_, _)
InsertByIndex(sorted, e) ==
    IF sorted = <<>> THEN <<e>>
    ELSE IF parseInt(Head(sorted).key) < parseInt(e.key)
         THEN <<Head(sorted)>> \o InsertByIndex(Tail(sorted), e)
         ELSE <<e>> \o sorted

RECURSIVE AscendingByIndex(_)
AscendingByIndex(entries) ==
    IF entries = <<>> THEN <<>>
    ELSE InsertByIndex(AscendingByIndex(Tail(entries)), Head(entries))

\* Object.entries(obj): the array-index keys in ascending numeric order, then
\* the other string keys in property creation order.
ObjectEntries(obj) ==
    AscendingByIndex(SelectSeq(obj, LAMBDA e : IsArrayIndex(e.key)))
        \o SelectSeq(obj, LAMBDA e : ~IsArrayIndex(e.key))

\* A sort that is not stable: e goes before the entries it compares equal to
RECURSIVE InsertDescendingUnstable(_, _)
InsertDescendingUnstable(sorted, e) ==
    IF sorted = <<>> THEN <<e>>
    ELSE IF Head(sorted).val > e.val
         THEN <<Head(sorted)>> \o InsertDescendingUnstable(Tail(sorted), e)
         ELSE <<e>> \o sorted

\* The place of e in an array sorted by ([, a], [, b]) => b - a: after every
\* entry that does not compare greater than it (the sort is stable).
RECURSIVE InsertDescending(_, _)
InsertDescending(sorted, e) ==
    IF sorted = <<>> THEN <<e>>
    ELSE IF Head(sorted).val >= e.val
         THEN <<Head(sorted)>> \o InsertDescending(Tail(sorted), e)
         ELSE <<e>> \o sorted

RECURSIVE SortDescendingUpTo(_, _)
SortDescendingUpTo(entries, n) ==
    IF n = 0 THEN <<>>
    ELSE InsertDescending(SortDescendingUpTo(entries, n - 1), entries[n])

\* entries.sort(([, a], [, b]) => b - a)
SortDescending(entries) == SortDescendingUpTo(entries, Len(entries))

\* Array.prototype.slice(0, n)
slice0(arr, n) == SubSeq(arr, 1, IF Len(arr) < n THEN Len(arr) ELSE n)

-----------------------------------------------------------------------------
(* The constants of the handler *)

WEEKDAY_NAMES ==
    <<"Sunday", "Monday", "Tuesday", "Wednesday", "Thursday", "Friday",
      "Saturday">>

MONTH_NAMES ==
    <<"January", "February", "March", "April", "May", "June", "July",
      "August", "September", "October", "November", "December">>

\* new Date("2024-01-01")
YearBoundary == <<2024, 1, 1>>

\* new Date(a) >= new Date(b) for two date strings
DateAtLeast(a, b) ==
    \/ a[1] > b[1]
    \/ a[1] = b[1] /\ a[2] > b[2]
    \/ a[1] = b[1] /\ a[2] = b[2] /\ a[3] >= b[3]

\* The thresholds compared with > in place of >=
getCommitRankExclusive(totalCommits) ==
    IF totalCommits > 5000 THEN "Top 0.5%-1%"
    ELSE IF totalCommits > 2000 THEN "Top 1%-3%"
    ELSE IF totalCommits > 1000 THEN "Top 5%-10%"
    ELSE IF totalCommits > 500 THEN "Top 10%-15%"
    ELSE IF totalCommits > 200 THEN "Top 25%-30%"
    ELSE IF totalCommits > 50 THEN "Median 50%"
    ELSE "Bottom 30%"

getCommitRank(totalCommits) ==
    IF totalCommits >= 5000 THEN "Top 0.5%-1%"
    ELSE IF totalCommits >= 2000 THEN "Top 1%-3%"
    ELSE IF totalCommits >= 1000 THEN "Top 5%-10%"
    ELSE IF totalCommits >= 500 THEN "Top 10%-15%"
    ELSE IF totalCommits >= 200 THEN "Top 25%-30%"
    ELSE IF totalCommits >= 50 THEN "Median 50%"
    ELSE "Bottom 30%"

-----------------------------------------------------------------------------
(* Double-precision arithmetic of                                          *)
(*     Math.round(mostActiveDay[1] / (contributionDays.length / 7))        *)
(* A natural number above 2^31 is the sequence of its base-2^15 digits,    *)
(* least significant first.                                                *)

Base == 2 ^ 15

\* The bits of the significand of a Number (IEEE 754 binary64).
Precision == 53

\* The 7 of contributionDays.length / 7.
DaysPerWeek == 7

RECURSIVE BitLength(_)
BitLength(x) == IF x = 0 THEN 0 ELSE 1 + BitLength(x \div 2)

RECURSIVE Big(_)
Big(n) == IF n = 0 THEN <<>> ELSE <<n % Base>> \o Big(n \div Base)

RECURSIVE BigTimesCarry(_, _, _)
BigTimesCarry(a, k, carry) ==
    IF a = <<>> THEN Big(carry)
    ELSE LET p == Head(a) * k + carry
         IN  <<p % Base>> \o BigTimesCarry(Tail(a), k, p \div Base)

\* a * k for 0 <= k < Base
BigTimes(a, k) == BigTimesCarry(a, k, 0)

\* a * 2^j
RECURSIVE BigShiftLeft(_, _)
BigShiftLeft(a, j) ==
    IF j >= 15 THEN BigShiftLeft(<<0>> \o a, j - 15) ELSE BigTimes(a, 2 ^ j)

RECURSIVE BigPlusCarry(_, _, _)
BigPlusCarry(a, b, carry) ==
    IF a = <<>> /\ b = <<>> THEN Big(carry)
    ELSE LET x == IF a = <<>> THEN 0 ELSE Head(a)
             y == IF b = <<>> THEN 0 ELSE Head(b)
             t == x + y + carry
         IN  <<t % Base>>
                \o BigPlusCarry(IF a = <<>> THEN <<>> ELSE Tail(a),
                                IF b = <<>> THEN <<>> ELSE Tail(b),
                                t \div Base)

BigPlus(a, b) == BigPlusCarry(a, b, 0)

\* a divided by d, 0 < d < Base: quotient and remainder
RECURSIVE BigDividedBy(_, _)
BigDividedBy(a, d) ==
    IF a = <<>> THEN [quot |-> <<>>, rem |-> 0]
    ELSE LET hi  == BigDividedBy(Tail(a), d)
             cur == hi.rem * Base + Head(a)
         IN  [quot |-> <<cur \div d>> \o hi.quot, rem |-> cur % d]

BigDigit(a, i) == IF i <= Len(a) THEN a[i] ELSE 0

\* a >= b, comparing from digit i down
RECURSIVE BigAtLeastFrom(_, _, _)
BigAtLeastFrom(a, b, i) ==
    IF i = 0 THEN TRUE
    ELSE IF BigDigit(a, i) # BigDigit(b, i) THEN BigDigit(a, i) > BigDigit(b, i)
    ELSE BigAtLeastFrom(a, b, i - 1)

BigAtLeast(a, b) ==
    BigAtLeastFrom(a, b, IF Len(a) > Len(b) THEN Len(a) ELSE Len(b))

\* Whether 2^c <= n / d
ReachesPowerOfTwo(n, d, c) ==
    IF c >= 0 THEN d * (2 ^ c) <= n ELSE d <= n * (2 ^ (0 - c))

\* The greatest c >= from with 2^c <= n / d
RECURSIVE BinaryExponent(_, _, _)
BinaryExponent(n, d, from) ==
    IF ReachesPowerOfTwo(n, d, from + 1) THEN BinaryExponent(n, d, from + 1)
    ELSE from

\* The double n / d of two positive integers below Base: the quotient rounded
\* to Precision significant bits, to nearest, ties to even.  The result is
\* the pair of m and s with value m / 2^s.
DoubleQuotient(n, d) ==
    LET s    == (Precision - 1) - BinaryExponent(n, d, 0 - BitLength(d))
        div  == BigDividedBy(BigShiftLeft(Big(n), s), d)
        low  == IF div.quot = <<>> THEN 0 ELSE Head(div.quot)
        up   == \/ 2 * div.rem > d
                \/ 2 * div.rem = d /\ low % 2 = 1
    IN  [m |-> IF up THEN BigPlus(div.quot, <<1>>) ELSE div.quot, s |-> s]

\* Whether the double t / q is at least j - 1/2, for an integer 0 <= t < Base,
\* a double q = m / 2^s and an integer 0 < j < Base / 2.  j - 1/2 is a double;
\* the quotient rounds to it or above exactly when t / q is at least the
\* midpoint between j - 1/2 and the double before it (at the midpoint it
\* rounds to the even significand, which is that of j - 1/2).
DoubleQuotientReachesHalf(t, q, j) ==
    IF j = 1
    THEN BigAtLeast(BigPlus(BigShiftLeft(Big(t), q.s + Precision + 2), q.m),
                    BigShiftLeft(q.m, Precision + 1))
    ELSE LET L == BitLength(2 * j - 1)
         IN  BigAtLeast(
                 BigPlus(BigShiftLeft(Big(t), q.s + Precision + 2 - L), q.m),
                 BigShiftLeft(BigTimes(q.m, 2 * j - 1), Precision + 1 - L))

\* The greatest integer from j down whose half the double t / q reaches
RECURSIVE RoundDownFrom(_, _, _)
RoundDownFrom(t, q, j) ==
    IF j = 0 \/ DoubleQuotientReachesHalf(t, q, j) THEN j
    ELSE RoundDownFrom(t, q, j - 1)

\* Math.round(t / q): the integer nearest to the double t / q, a half
\* rounding up.  q is at least 2^(Precision - 1 - q.s), which bounds the
\* quotient from above; the search starts one above that bound.
MathRoundOfQuotient(t, q) ==
    LET bound == IF q.s >= Precision - 1
                 THEN t * (2 ^ (q.s - (Precision - 1)))
                 ELSE t \div (2 ^ ((Precision - 1) - q.s))
    IN  RoundDownFrom(t, q, bound + 1)

-----------------------------------------------------------------------------
(* The aggregation of a user record: lines 133 to 218 of the handler *)

RECURSIVE MonthlyCommitsUpTo(_, _)
MonthlyCommitsUpTo(days, n) ==
    IF n = 0 THEN <<>>
    ELSE LET acc      == MonthlyCommitsUpTo(days, n - 1)
             month    == days[n].date[2]    \* new Date(day.date).getMonth() + 1
             monthKey == padStart(NumberToString(month), 2, "0")
         IN  Put(acc, monthKey,
                 GetOrZero(acc, monthKey) + days[n].contributionCount)

RECURSIVE DailyCommitsUpTo(_, _)
DailyCommitsUpTo(days, n) ==
    IF n = 0 THEN <<>>
    ELSE LET acc == DailyCommitsUpTo(days, n - 1)
             key == NumberToString(days[n].weekday)
         IN  Put(acc, key, GetOrZero(acc, key) + days[n].contributionCount)

RECURSIVE TotalStarsUpTo(_, _)
TotalStarsUpTo(nodes, n) ==
    IF n = 0 THEN 0
    ELSE TotalStarsUpTo(nodes, n - 1) + nodes[n].stargazerCount

\* repo.primaryLanguage?.name is truthy: a language with a non-empty name
HasLanguageName(repo) ==
    repo.primaryLanguage.present /\ repo.primaryLanguage.name # <<>>

RECURSIVE LanguagesUpTo(_, _)
LanguagesUpTo(nodes, n) ==
    IF n = 0 THEN <<>>
    ELSE LET acc == LanguagesUpTo(nodes, n - 1)
             key == nodes[n].primaryLanguage.name
         IN  IF HasLanguageName(nodes[n])
             THEN Put(acc, key, GetOrZero(acc, key) + 1)
             ELSE acc

\* Object.entries(languages).sort(...).slice(0, 3).map(([lang]) => lang)
TopLanguages(nodes) ==
    LET top == slice0(SortDescending(
                          ObjectEntries(LanguagesUpTo(nodes, Len(nodes)))), 3)
    IN  [i \in 1..Len(top) |-> top[i].key]

\* The streak loop without its else branch: the streak is never reset
StreakNeverReset(days, n) ==
    LET worked == Cardinality({i \in 1..n : days[i].contributionCount > 0})
    IN  [currentStreak |-> worked, maxStreak |-> worked]

\* The streak loop: the state after the first n days
RECURSIVE StreakUpTo(_, _)
StreakUpTo(days, n) ==
    IF n = 0 THEN [currentStreak |-> 0, maxStreak |-> 0]
    ELSE LET before == StreakUpTo(days, n - 1)
         IN  IF days[n].contributionCount > 0
             THEN [currentStreak |-> before.currentStreak + 1,
                   maxStreak |->
                       IF before.maxStreak > before.currentStreak + 1
                       THEN before.maxStreak
                       ELSE before.currentStreak + 1]
             ELSE [currentStreak |-> 0, maxStreak |-> before.maxStreak]

\* .filter((day) => new Date(day.date) >= new Date("2024-01-01"))
ContributionDays(user) ==
    SelectSeq(user.days, LAMBDA day : DateAtLeast(day.date, YearBoundary))

\* const [mostActiveMonth] = Object.entries(monthlyCommits).sort(...)
SortedMonths(days) ==
    SortDescending(ObjectEntries(MonthlyCommitsUpTo(days, Len(days))))

\* const [mostActiveDay] = Object.entries(dailyCommits).sort(...)
SortedWeekdays(days) ==
    SortDescending(ObjectEntries(DailyCommitsUpTo(days, Len(days))))

\* Math.round(mostActiveDay[1] / (contributionDays.length / 7))
AveragePerDay(weekdayCommits, numberOfDays) ==
    MathRoundOfQuotient(weekdayCommits,
                        DoubleQuotient(numberOfDays, DaysPerWeek))

TypeErrorMessage == "Cannot read properties of undefined (reading '0')"

\* mostActiveDay?.[0] and mostActiveMonth?.[0]: nothing throws, and the
\* undefined fields are left out of the JSON
BuildStatsLenient(user) ==
    LET days == ContributionDays(user)
    IN  [threw |-> FALSE,
         value |->
            [longestStreak   |-> StreakUpTo(days, Len(days)).maxStreak,
             totalCommits    |-> user.totalContributions,
             commitRank      |-> getCommitRank(user.totalContributions),
             calendarData    |-> days,
             mostActiveDay   |-> [commits |-> 0],
             mostActiveMonth |-> [commits |-> 0],
             starsEarned     |->
                TotalStarsUpTo(user.repositories, Len(user.repositories)),
             topLanguages    |-> TopLanguages(user.repositories)]]

\* The stats object of lines 203-218.  mostActiveDay and mostActiveMonth are
\* undefined when no day passed the filter, and mostActiveDay[0] throws.
BuildStats(user) ==
    LET days   == ContributionDays(user)
        months == SortedMonths(days)
        wdays  == SortedWeekdays(days)
    IN  IF wdays = <<>>
        THEN [threw |-> TRUE, message |-> TypeErrorMessage]
        ELSE [threw |-> FALSE,
              value |->
                [longestStreak   |-> StreakUpTo(days, Len(days)).maxStreak,
                 totalCommits    |-> user.totalContributions,
                 commitRank      |-> getCommitRank(user.totalContributions),
                 calendarData    |-> days,
                 mostActiveDay   |->
                    [name    |-> WEEKDAY_NAMES[parseInt(wdays[1].key) + 1],
                     commits |-> AveragePerDay(wdays[1].val, Len(days))],
                 mostActiveMonth |->
                    [name    |-> MONTH_NAMES[parseInt(months[1].key)],
                     commits |-> months[1].val],
                 starsEarned     |->
                    TotalStarsUpTo(user.repositories,
                                   Len(user.repositories)),
                 topLanguages    |-> TopLanguages(user.repositories)]]

NullUserMessage ==
    "Cannot read properties of null (reading 'contributionsCollection')"

\* userData?.repositories?.nodes ?? []: a null user yields the fields that
\* need no contribution calendar
ComputeStatsOptional(user) ==
    IF user.isNull
    THEN [threw |-> FALSE, value |-> [starsEarned |-> 0, topLanguages |-> <<>>]]
    ELSE BuildStats(user)

\* The body of the try block after the await: userData = graphqlResponse.user
\* and everything computed from it.  A null user throws at its first
\* property access.
ComputeStats(user) ==
    IF user.isNull THEN [threw |-> TRUE, message |-> NullUserMessage]
    ELSE BuildStats(user)

-----------------------------------------------------------------------------
(* What the GraphQL API returns: calendar days, repositories, a user *)

\* The lengths of the months of 2024
MonthLengths == <<31, 29, 31, 30, 31, 30, 31, 31, 30, 31, 30, 31>>

RECURSIVE MonthAndDay(_, _)
MonthAndDay(dayOfYear, month) ==
    IF dayOfYear <= MonthLengths[month] THEN <<month, dayOfYear>>
    ELSE MonthAndDay(dayOfYear - MonthLengths[month], month + 1)

\* The date o days after Sunday 2023-12-31, up to the end of 2024
DateOfOrdinal(o) ==
    IF o = 0 THEN <<2023, 12, 31>> ELSE <<2024>> \o MonthAndDay(o, 1)

\* A contributionDays node: its weekday is that of its date (Sunday is 0)
CalendarDay(o, count) ==
    [date |-> DateOfOrdinal(o), contributionCount |-> count, weekday |-> o % 7]

NoLanguage == [present |-> FALSE, name |-> <<>>]

Language(name) == [present |-> TRUE, name |-> name]

\* A repositories node
Repository(stars, language) ==
    [stargazerCount |-> stars, primaryLanguage |-> language]

NullUser == [isNull |-> TRUE]

UserRecord(days, repositories, total) ==
    [isNull |-> FALSE, days |-> days, repositories |-> repositories,
     totalContributions |-> total]

RECURSIVE SumOfCounts(_)
SumOfCounts(days) ==
    IF days = <<>> THEN 0
    ELSE Head(days).contributionCount + SumOfCounts(Tail(days))

-----------------------------------------------------------------------------
(* Bounds and the inputs drawn within them *)

\* The greatest contribution count of a day of a sampled list
MaxCount == 2

\* The greatest length of a list of consecutive days
MaxRun == 18

\* The greatest contribution count of a Monday in a list of consecutive days
MaxMondayCount == 3

\* The greatest number of repositories
MaxRepos == 6

\* The greatest totalContributions
MaxTotal == 5001

\* The days a sampled list is drawn from: Sun 2023-12-31, Mon 2024-01-01,
\* Sun 2024-01-07, Thu 2024-02-01, Tue 2024-10-01, Fri 2024-11-01
SampleOrdinals == <<0, 1, 7, 32, 275, 306>>

\* The chronological lists of sampled days, from the i-th sample on
RECURSIVE SampledDayLists(_)
SampledDayLists(i) ==
    IF i > Len(SampleOrdinals) THEN {<<>>}
    ELSE LET rest == SampledDayLists(i + 1)
         IN  rest \cup {<<CalendarDay(SampleOrdinals[i], c)>> \o l :
                            c \in 0..MaxCount, l \in rest}

\* n consecutive days from Monday 2024-01-01
RunOfDays(n, mondays, others) ==
    [i \in 1..n |-> CalendarDay(i, IF i % 7 = 1 THEN mondays ELSE others)]

RunDayLists ==
    {RunOfDays(n, m, o) : n \in 1..MaxRun, m \in 0..MaxMondayCount, o \in 0..1}

DayLists == SampledDayLists(1) \cup RunDayLists

LanguageNames == {<<"A">>, <<"B">>, <<"C">>}

LanguageChoices == {NoLanguage} \cup {Language(n) : n \in LanguageNames}

\* Up to MaxRepos repositories in descending order of stars
RepositoryLists ==
    UNION {{[i \in 1..n |-> Repository(n - i, f[i])] :
                f \in [1..n -> LanguageChoices]} : n \in 0..MaxRepos}

\* The user records of the requests: no day in 2024, one or two days, with
\* and without repositories
RequestUsers ==
    {UserRecord(d, r, SumOfCounts(d)) :
        d \in {<<CalendarDay(0, 1)>>,
               <<CalendarDay(0, 1), CalendarDay(1, 0)>>,
               <<CalendarDay(1, 1), CalendarDay(7, 1)>>,
               <<CalendarDay(7, 2), CalendarDay(275, 1)>>},
        r \in {<<>>,
               <<Repository(1, Language(<<"A">>)), Repository(0, NoLanguage)>>}}

-----------------------------------------------------------------------------
(* The requests *)

Req == {"r1", "r2"}

\* searchParams.get("username"): null, or the (possibly empty) value
NullParam == [present |-> FALSE, value |-> ""]

QueryValues ==
    {NullParam, [present |-> TRUE, value |-> ""],
     [present |-> TRUE, value |-> "octocat"]}

\* username === null
IsNull(param) == ~param.present

\* !username
IsFalsy(param) == ~param.present \/ param.value = ""

\* How octokit.graphql settles: it rejects with an error, or fulfils with a
\* response whose user is null or a user record
Settlements ==
    {[kind |-> "rejected", message |-> m] : m \in {"", "Bad credentials"}}
        \cup {[kind |-> "fulfilled", user |-> u] :
                 u \in {NullUser} \cup RequestUsers}

NotSettled == [kind |-> "pending"]

NoResponse == [status |-> 0]

Event(r, ev, status) == [req |-> r, ev |-> ev, status |-> status]

\* The events of request r, in order
EventsOf(r) == SelectSeq(trace, LAMBDA e : e.req = r)

\* NextResponse.json({ error: ... }, { status: 400 })
BadRequest ==
    [status |-> 400, body |-> [error |-> "Username parameter is required"]]

\* The catch block: error.message || "Failed to fetch GitHub statistics"
CatchResponse(message) ==
    [status |-> 500,
     body |-> [error |-> IF message = ""
                         THEN "Failed to fetch GitHub statistics"
                         ELSE message]]

\* NextResponse.json(stats)
OkResponse(value) == [status |-> 200, body |-> value]

\* userData kept in a variable of the module: the user of the call that was
\* fulfilled last
userDataShared(r) ==
    LET last == CHOOSE i \in 1..Len(trace) :
                    /\ trace[i].ev = "fulfilled"
                    /\ \A j \in (i + 1)..Len(trace) : trace[j].ev # "fulfilled"
    IN  graphqlResponse[trace[last].req].user

\* const userData = graphqlResponse.user, in the invocation of request r
userData(r) == graphqlResponse[r].user

Respond(r, resp) ==
    /\ response' = [response EXCEPT ![r] = resp]
    /\ pc' = [pc EXCEPT ![r] = "done"]
    /\ trace' = Append(trace, Event(r, "response", resp.status))

\* The request arrives and the handler runs to its first return or await:
\* a falsy username returns 400, any other issues the GraphQL call.
Receive(r, param) ==
    /\ pc[r] = "idle"
    /\ username' = [username EXCEPT ![r] = param]
    /\ IF IsFalsy(param)
       THEN Respond(r, BadRequest)
       ELSE /\ pc' = [pc EXCEPT ![r] = "awaiting"]
            /\ trace' = Append(trace, Event(r, "call", 0))
            /\ UNCHANGED response
    /\ UNCHANGED <<graphqlResponse, input, stats>>

\* The GraphQL API answers the call of request r.
Settle(r, how) ==
    /\ pc[r] = "awaiting"
    /\ graphqlResponse' = [graphqlResponse EXCEPT ![r] = how]
    /\ pc' = [pc EXCEPT ![r] = "settled"]
    /\ trace' = Append(trace, Event(r, how.kind, 0))
    /\ UNCHANGED <<username, response, input, stats>>

\* The catch block calls again, once, before it responds
OnRejectedRetry(r) ==
    IF Cardinality({i \in 1..Len(trace) :
                       trace[i].req = r /\ trace[i].ev = "call"}) < 2
    THEN /\ pc' = [pc EXCEPT ![r] = "awaiting"]
         /\ trace' = Append(trace, Event(r, "call", 0))
         /\ UNCHANGED response
    ELSE Respond(r, CatchResponse(graphqlResponse[r].message))

\* The await throws: the catch block responds.
OnRejected(r) == Respond(r, CatchResponse(graphqlResponse[r].message))

\* The await returns: the rest of the try block runs, and the catch block if
\* it throws.
OnFulfilled(r) ==
    LET result == ComputeStats(userData(r))
    IN  Respond(r, IF result.threw THEN CatchResponse(result.message)
                   ELSE OkResponse(result.value))

\* The handler of request r resumes after its await.
Resume(r) ==
    /\ pc[r] = "settled"
    /\ IF graphqlResponse[r].kind = "rejected"
       THEN OnRejected(r)
       ELSE OnFulfilled(r)
    /\ UNCHANGED <<username, graphqlResponse, input, stats>>

NoInput == UserRecord(<<>>, <<>>, 0)

Init ==
    /\ pc = [r \in Req |-> "idle"]
    /\ username = [r \in Req |-> NullParam]
    /\ graphqlResponse = [r \in Req |-> NotSettled]
    /\ response = [r \in Req |-> NoResponse]
    /\ trace = <<>>
    /\ input = NoInput
    /\ stats = <<>>

Next ==
    \E r \in Req :
        \/ \E param \in QueryValues : Receive(r, param)
        \/ \E how \in Settlements : Settle(r, how)
        \/ Resume(r)

Spec == Init /\ [][Next]_vars

-----------------------------------------------------------------------------
(* The aggregation applied to one user record *)

HandlerIdle ==
    /\ pc = [r \in Req |-> "idle"]
    /\ username = [r \in Req |-> NullParam]
    /\ graphqlResponse = [r \in Req |-> NotSettled]
    /\ response = [r \in Req |-> NoResponse]
    /\ trace = <<>>

Aggregate ==
    /\ stats = <<>>
    /\ stats' = <<ComputeStats(input)>>
    /\ UNCHANGED <<pc, username, graphqlResponse, response, trace, input>>

\* Any list of contribution days, no repository
InitDays ==
    /\ HandlerIdle
    /\ input \in {UserRecord(d, <<>>, SumOfCounts(d)) : d \in DayLists}
    /\ stats = <<>>

SpecDays == InitDays /\ [][Aggregate]_vars

\* Any list of repositories, one day of contributions
InitRepos ==
    /\ HandlerIdle
    /\ input \in {UserRecord(<<CalendarDay(1, 1)>>, r, 1) :
                     r \in RepositoryLists}
    /\ stats = <<>>

SpecRepos == InitRepos /\ [][Aggregate]_vars

\* Any total of contributions, one day of contributions
InitTotals ==
    /\ HandlerIdle
    /\ input \in {UserRecord(<<CalendarDay(1, 1)>>, <<>>, t) : t \in 0..MaxTotal}
    /\ stats = <<>>

SpecTotals == InitTotals /\ [][Aggregate]_vars

-----------------------------------------------------------------------------
(* Properties of the requests, under Spec *)

StatsFields ==
    {"longestStreak", "totalCommits", "commitRank", "calendarData",
     "mostActiveDay", "mostActiveMonth", "starsEarned", "topLanguages"}

IsErrorBody(body) == DOMAIN body = {"error"} /\ body.error # ""

Called(r) == \E i \in 1..Len(trace) : trace[i].req = r /\ trace[i].ev = "call"

\* C1: a request whose username parameter is missing or empty is answered
\* with status 400 and an error message, in the step that receives it, and
\* no outbound call of that request is ever made.
MissingUsernameIs400 ==
    \A r \in Req :
        (pc[r] # "idle" /\ (~username[r].present \/ username[r].value = "")) =>
            /\ pc[r] = "done"
            /\ response[r].status = 400
            /\ IsErrorBody(response[r].body)
            /\ ~Called(r)

\* C1 witness: an empty username was answered while the other request had
\* made its outbound call.
EmptyUsernameAnswered ==
    \E r \in Req, o \in Req :
        /\ pc[r] = "done" /\ username[r].present /\ username[r].value = ""
        /\ response[r].status = 400
        /\ Called(o)

UpstreamFailed(r) ==
    \/ graphqlResponse[r].kind = "rejected"
    \/ graphqlResponse[r].kind = "fulfilled" /\ graphqlResponse[r].user.isNull

\* C2: a request with a non-empty username whose outbound call threw or
\* returned a null user is answered with status 500 and a body holding only
\* an error message; and every response body is either an error message alone
\* or a stats object with all of its fields.
UpstreamFailureIs500 ==
    \A r \in Req :
        pc[r] = "done" =>
            /\ (username[r].present /\ username[r].value # ""
                    /\ UpstreamFailed(r)) =>
                   (response[r].status = 500 /\ IsErrorBody(response[r].body))
            /\ \/ IsErrorBody(response[r].body)
               \/ DOMAIN response[r].body = StatsFields
            /\ response[r].status = 200 <=>
                   DOMAIN response[r].body = StatsFields

\* C2 witness: one request failed by a rejected call and another by a null
\* user, and both were answered.
BothFailuresAnswered ==
    \E r \in Req, o \in Req :
        /\ pc[r] = "done" /\ graphqlResponse[r].kind = "rejected"
        /\ pc[o] = "done" /\ graphqlResponse[o].kind = "fulfilled"
        /\ graphqlResponse[o].user.isNull
        /\ response[r].status = 500 /\ response[o].status = 500

\* C7: a request makes at most one outbound call; the event of a request
\* that follows a rejected call is its 500 response; and a response of a
\* request that made a call comes after the call and its settlement.
OneCallNoRetry ==
    \A r \in Req :
        LET ev == EventsOf(r)
        IN  /\ Cardinality({i \in 1..Len(ev) : ev[i].ev = "call"}) <= 1
            /\ \A i \in 1..Len(ev) :
                   (ev[i].ev = "rejected" /\ i < Len(ev)) =>
                       (ev[i + 1].ev = "response" /\ ev[i + 1].status = 500)
            /\ \A i \in 1..Len(ev) :
                   (ev[i].ev = "response" /\ ev[i].status # 400) =>
                       /\ i = Len(ev)
                       /\ \E j \in 1..(i - 1) : ev[j].ev = "call"
            /\ pc[r] = "awaiting" => ev[Len(ev)].ev = "call"

\* C7 witness: a request was called, rejected and answered with 500, in
\* this order and with nothing else.
RejectedThenAnswered ==
    \E r \in Req :
        LET ev == EventsOf(r)
        IN  /\ Len(ev) = 3
            /\ ev[1].ev = "call" /\ ev[2].ev = "rejected"
            /\ ev[3].ev = "response" /\ ev[3].status = 500

\* The response of a request run alone with this username and this
\* settlement of its call
ResponseAlone(param, how) ==
    IF IsFalsy(param) THEN BadRequest
    ELSE IF how.kind = "rejected" THEN CatchResponse(how.message)
    ELSE LET result == ComputeStats(how.user)
         IN  IF result.threw THEN CatchResponse(result.message)
             ELSE OkResponse(result.value)

\* C8: whatever the interleaving of the requests, the response of each is the
\* one it produces alone with the same username and the same upstream reply.
RequestsIndependent ==
    \A r \in Req :
        pc[r] = "done" =>
            response[r] = ResponseAlone(username[r], graphqlResponse[r])

Position(r, ev) ==
    CHOOSE i \in 1..Len(trace) : trace[i].req = r /\ trace[i].ev = ev

\* C8 witness: two requests were both suspended at their calls, the calls
\* were fulfilled with different users, the request settled first was
\* answered last, and the answers differ.
InterleavedRequestsAnswered ==
    \E r \in Req, o \in Req :
        /\ r # o /\ pc[r] = "done" /\ pc[o] = "done"
        /\ graphqlResponse[r].kind = "fulfilled"
        /\ graphqlResponse[o].kind = "fulfilled"
        /\ graphqlResponse[r] # graphqlResponse[o]
        /\ response[r].status = 200 /\ response[o].status = 200
        /\ response[r] # response[o]
        /\ Position(o, "call") < Position(r, "fulfilled")
        /\ Position(r, "fulfilled") < Position(o, "fulfilled")
        /\ Position(o, "response") < Position(r, "response")

NoDayPassesFilter(r) ==
    /\ graphqlResponse[r].kind = "fulfilled"
    /\ ~graphqlResponse[r].user.isNull
    /\ \A i \in 1..Len(graphqlResponse[r].user.days) :
           ~DateAtLeast(graphqlResponse[r].user.days[i].date, YearBoundary)

\* C10: a request whose call returned a user with no contribution day on or
\* after the year boundary is answered with status 500 and an error body, and
\* every 200 response has a non-empty calendarData.
EmptyCalendarIs500 ==
    \A r \in Req :
        pc[r] = "done" =>
            /\ NoDayPassesFilter(r) =>
                   (response[r].status = 500 /\ IsErrorBody(response[r].body))
            /\ response[r].status = 200 =>
                   response[r].body.calendarData # <<>>

\* C10 witness: a user with a day in 2023 only was answered with the
\* message of the TypeError.
EmptyCalendarAnswered ==
    \E r \in Req :
        /\ pc[r] = "done" /\ NoDayPassesFilter(r)
        /\ graphqlResponse[r].user.days # <<>>
        /\ response[r] = CatchResponse(TypeErrorMessage)

-----------------------------------------------------------------------------
(* Properties of the aggregation, under SpecDays, SpecRepos and SpecTotals *)

Returned == stats # <<>> /\ ~stats[1].threw

Max(S) == CHOOSE x \in S : \A y \in S : y <= x

Min(S) == CHOOSE x \in S : \A y \in S : x <= y

\* The lengths of the runs of consecutive days with a non-zero count
RunLengths(days) ==
    {j - i + 1 : <<i, j>> \in
        {p \in (1..Len(days)) \X (1..Len(days)) :
            /\ p[1] <= p[2]
            /\ \A k \in p[1]..p[2] : days[k].contributionCount > 0}}

\* C3: longestStreak is the greatest length of a run of consecutive days with
\* a non-zero count in the list of days, in its order: 0 when every count is
\* zero, the length of the list when none is.
LongestStreakIsMaxRun ==
    Returned =>
        LET days   == stats[1].value.calendarData
            streak == stats[1].value.longestStreak
        IN  /\ streak = Max(RunLengths(days) \cup {0})
            /\ (\A i \in 1..Len(days) : days[i].contributionCount = 0) =>
                   streak = 0
            /\ (\A i \in 1..Len(days) : days[i].contributionCount > 0) =>
                   streak = Len(days)

\* C3 witness: a list with two runs separated by a day without
\* contributions, the later run the longer.
StreakAfterGap ==
    /\ Returned
    /\ LET days == stats[1].value.calendarData
       IN  /\ Len(days) = 4
           /\ days[1].contributionCount > 0
           /\ days[2].contributionCount = 0
           /\ days[3].contributionCount > 0
           /\ days[4].contributionCount > 0
    /\ stats[1].value.longestStreak = 2

\* The threshold table of commitRank, in descending order
RankTable ==
    <<[atLeast |-> 5000, label |-> "Top 0.5%-1%"],
      [atLeast |-> 2000, label |-> "Top 1%-3%"],
      [atLeast |-> 1000, label |-> "Top 5%-10%"],
      [atLeast |-> 500, label |-> "Top 10%-15%"],
      [atLeast |-> 200, label |-> "Top 25%-30%"],
      [atLeast |-> 50, label |-> "Median 50%"],
      [atLeast |-> 0, label |-> "Bottom 30%"]>>

\* C4: commitRank is the label of the first row of the threshold table that
\* totalCommits reaches, and totalCommits is the upstream total; so each
\* threshold maps to its own label and the value below it to the next label.
CommitRankPerTable ==
    Returned =>
        LET total == input.totalContributions
            first == Min({i \in 1..Len(RankTable) : total >= RankTable[i].atLeast})
        IN  /\ stats[1].value.totalCommits = total
            /\ stats[1].value.commitRank = RankTable[first].label
            /\ \A i \in 1..(Len(RankTable) - 1) :
                   /\ total = RankTable[i].atLeast =>
                          stats[1].value.commitRank = RankTable[i].label
                   /\ total = RankTable[i].atLeast - 1 =>
                          stats[1].value.commitRank = RankTable[i + 1].label
            /\ total = 0 => stats[1].value.commitRank = "Bottom 30%"

\* C4 witness: the total 5000 is ranked by the highest threshold, which it
\* just reaches.
RankAtBoundary ==
    /\ Returned
    /\ input.totalContributions = 5000
    /\ stats[1].value.commitRank = "Top 0.5%-1%"

LanguageOf(i) == input.repositories[i].primaryLanguage

ReposOf(name) ==
    {i \in 1..Len(input.repositories) :
        LanguageOf(i).present /\ LanguageOf(i).name = name}

NamedLanguages == {name \in LanguageNames : ReposOf(name) # {}}

\* a ranks before b: more repositories, or as many and encountered first
RanksBefore(a, b) ==
    \/ Cardinality(ReposOf(a)) > Cardinality(ReposOf(b))
    \/ /\ Cardinality(ReposOf(a)) = Cardinality(ReposOf(b))
       /\ Min(ReposOf(a)) < Min(ReposOf(b))

InputLanguages == [i \in 1..Len(input.repositories) |-> LanguageOf(i)]

DaysOfWeekday(days, w) == {i \in 1..Len(days) : days[i].weekday = w}

DaysOfMonth(days, m) == {i \in 1..Len(days) : days[i].date[2] = m}

RECURSIVE CountOver(_, _)
CountOver(days, indices) ==
    IF indices = {} THEN 0
    ELSE LET i == CHOOSE x \in indices : TRUE
         IN  days[i].contributionCount + CountOver(days, indices \ {i})

\* Among the groups with a day, the one with the greatest summed count, the
\* one encountered first among those that tie
FirstGreatest(days, groups) ==
    CHOOSE g \in DOMAIN groups :
        /\ groups[g] # {}
        /\ \A h \in DOMAIN groups :
               (h # g /\ groups[h] # {}) =>
                   \/ CountOver(days, groups[g]) > CountOver(days, groups[h])
                   \/ /\ CountOver(days, groups[g]) = CountOver(days, groups[h])
                      /\ Min(groups[g]) < Min(groups[h])

NameIndex(names, name) == CHOOSE i \in 1..Len(names) : names[i] = name

\* C6: the most active weekday and the most active month are the groups with
\* the greatest summed count, and of several that tie the one whose key was
\* encountered first in the list of days.
TieGoesToFirstEncountered ==
    Returned =>
        LET days == stats[1].value.calendarData
        IN  /\ stats[1].value.mostActiveDay.name =
                   WEEKDAY_NAMES[FirstGreatest(days,
                       [w \in 0..6 |-> DaysOfWeekday(days, w)]) + 1]
            /\ stats[1].value.mostActiveMonth.name =
                   MONTH_NAMES[FirstGreatest(days,
                       [m \in 1..12 |-> DaysOfMonth(days, m)])]

\* C9: mostActiveDay.commits is 7 * weekdayTotal / numberOfFilteredDays
\* rounded to the nearest integer, a half rounding up, and
\* mostActiveMonth.commits is the summed count of the month.
AverageIsRoundedExactQuotient ==
    Returned =>
        LET days  == stats[1].value.calendarData
            n     == Len(days)
            w     == NameIndex(WEEKDAY_NAMES, stats[1].value.mostActiveDay.name) - 1
            m     == NameIndex(MONTH_NAMES, stats[1].value.mostActiveMonth.name)
            total == CountOver(days, DaysOfWeekday(days, w))
        IN  /\ stats[1].value.mostActiveDay.commits =
                   (14 * total + n) \div (2 * n)
            /\ stats[1].value.mostActiveMonth.commits =
                   CountOver(days, DaysOfMonth(days, m))

====
